---- MODULE Spec2Model ----
(***************************************************************************)
(* Model of aten/src/ATen/native/quantized/cpu/LinearUnpackImpl.cpp:       *)
(* the unpack() methods of the four packed linear weight classes           *)
(*   A  PackedLinearWeight          (fbgemm, int8)                         *)
(*   B  PackedLinearWeightsQnnp     (qnnpack, int8)                        *)
(*   C  PackedLinearWeightFp16      (fbgemm, float16)                      *)
(*   D  PackedLinearWeightsOnednn   (onednn)                               *)
(* Tensors live in a heap keyed by tensor identity, so aliasing and        *)
(* in-place writes are visible.  Several callers run unpack() on the same  *)
(* packed weight, a statement at a time, in any interleaving.              *)
(***************************************************************************)
EXTENDS Integers, Sequences, FiniteSets, TLC

\* ---------------------------------------------------------------- bounds
MaxDim == 3        \* N and K range over 1..MaxDim
NumCalls == 2      \* concurrent callers of unpack()
MaxRounds == 2     \* unpack() calls each caller makes, one after another

Calls == 1..NumCalls
Dims == 1..MaxDim
Seeds == {1, 5}                  \* first element of a ramp-filled matrix
ByteSeeds == {0, 126, 128, 252}  \* first byte of a ramp-filled qnnpack buffer
Bytes == 0..255

\* ------------------------------------------------------------- constants
Offset == 128      \* weight_origin.sub_(128)
Uninit == -999     \* content of a tensor fresh from at::empty

kPerTensorAffine == "kPerTensorAffine"
kPerChannelAffine == "kPerChannelAffine"
kPerChannelAffineFloatQParams == "kPerChannelAffineFloatQParams"
QSchemes == {kPerTensorAffine, kPerChannelAffine, kPerChannelAffineFloatQParams}

\* --------------------------------------------------------- tensor values
NullId == <<"null", 0, 0>>
WId == <<"w", 0, 0>>            \* the packed buffer  w
OrigId == <<"orig", 0, 0>>      \* orig_weight / orig_weight_
BiasId == <<"bias", 0, 0>>      \* bias_ / orig_bias_
StaticId == <<"static", 0, 0>>  \* a buffer shared by all calls (unpack() uses none)

NoQ == [scheme |-> "none", scale_t |-> "none", zp_t |-> "none",
        scales |-> <<>>, zero_points |-> <<>>, axis |-> -1]

Ramp(seed, n) == [i \in 1..n |-> seed + i - 1]
ByteRamp(seed, n) == [i \in 1..n |-> (seed + i - 1) % 256]
Fill(n, x) == [i \in 1..n |-> x]

Numel(sizes) == sizes[1] * sizes[2]

\* element [i][j] (1-based) of a row-major 2-D tensor
At(t, i, j) == t.data[(i - 1) * t.sizes[2] + j]


UndefinedTensor == [dtype |-> "Undefined", sizes |-> <<0, 0>>, data |-> <<>>, q |-> NoQ]

Lookup(h, id) == IF id \in DOMAIN h THEN h[id] ELSE UndefinedTensor

\* --------------------------------------------------- packed-buffer access
NumRows(w) == w.sizes[1]
NumCols(w) == w.sizes[2]

\* fbgemm::PackBMatrix<int8_t>::unpack: the matrix was packed transposed, so
\* the dense buffer receives out[n][k] = B(k, n), row-major [numCols, numRows]
PackBUnpack(w) ==
  [x \in 1..(NumRows(w) * NumCols(w)) |->
     LET n == ((x - 1) \div NumRows(w)) + 1
         k == ((x - 1) % NumRows(w)) + 1
     IN  w.data[(k - 1) * NumCols(w) + n]]

\* qnnpack PackBMatrix::unpackWeights: the bytes of the [N, K] matrix in
\* natural row-major order
UnpackWeights(w) == [x \in 1..Numel(w.sizes) |-> w.data[x]]

\* fbgemm::PackedGemmMatrixFP16::unpack(dst, trans): element (i, j) of the
\* packed [nrows, ncols] matrix goes to dst[i + nrows * j] when transposing
\* and to dst[i * ncols + j] otherwise (0-based)
Fp16Unpack(w, trans) ==
  [x \in 1..(NumRows(w) * NumCols(w)) |->
     IF trans = "Transpose"
     THEN LET j == ((x - 1) \div NumRows(w)) + 1
              i == ((x - 1) % NumRows(w)) + 1
          IN  w.data[(i - 1) * NumCols(w) + j]
     ELSE w.data[x]]

\* ------------------------------------------------------ tensor factories
\* at::from_blob(vec.data(), vec.size(), dtype): a 1-D view of a std::vector
FromBlob(vec) == [ty |-> vec.ty, v |-> [i \in 1..Len(vec.v) |-> vec.v[i]]]

\* Tensor::toType on 1-D metadata: float -> double and int -> long widen
\* without changing any value; the result is a new array of the target type
ToType(arr, ty) == [ty |-> ty, v |-> [i \in 1..Len(arr.v) |-> arr.v[i]]]

EmptyAffineQuantized(sizes, scale, zp) ==
  [dtype |-> "QInt8", sizes |-> sizes, data |-> Fill(Numel(sizes), Uninit),
   q |-> [scheme |-> kPerTensorAffine, scale_t |-> "double", zp_t |-> "long",
          scales |-> <<scale>>, zero_points |-> <<zp>>, axis |-> -1]]

EmptyPerChannelAffineQuantized(sizes, scales, zps, axis) ==
  [dtype |-> "QInt8", sizes |-> sizes, data |-> Fill(Numel(sizes), Uninit),
   q |-> [scheme |-> kPerChannelAffine, scale_t |-> scales.ty, zp_t |-> zps.ty,
          scales |-> scales.v, zero_points |-> zps.v, axis |-> axis]]

Empty(sizes, dtype) ==
  [dtype |-> dtype, sizes |-> sizes, data |-> Fill(Numel(sizes), Uninit), q |-> NoQ]

\* ------------------------------------------------------------- backend A
\* {N, K} = {numCols, numRows}
DimsA_swapped(w) == <<NumRows(w), NumCols(w)>>
DimsA(w) == <<NumCols(w), NumRows(w)>>

\* the tensor weight_origin holds after the q_scheme dispatch
AllocA_default(p, w) ==
  IF p.q_scheme = kPerChannelAffine
  THEN EmptyPerChannelAffineQuantized(DimsA(w),
         ToType(FromBlob(p.w_scale), "double"),
         ToType(FromBlob(p.w_zp), "long"), 0)
  ELSE EmptyAffineQuantized(DimsA(w), p.w_scale.v[1], p.w_zp.v[1])
AllocA_firstonly(p, w) ==
  IF p.q_scheme = kPerTensorAffine
  THEN EmptyAffineQuantized(DimsA(w), p.w_scale.v[1], p.w_zp.v[1])
  ELSE IF p.q_scheme = kPerChannelAffine
  THEN EmptyPerChannelAffineQuantized(DimsA(w),
         ToType(FromBlob(p.w_scale), "double"),
         [ty |-> "long", v |-> Fill(Len(p.w_zp.v), p.w_zp.v[1])], 0)
  ELSE UndefinedTensor
AllocA(p, w) ==
  IF p.q_scheme = kPerTensorAffine
  THEN EmptyAffineQuantized(DimsA(w), p.w_scale.v[1], p.w_zp.v[1])
  ELSE IF p.q_scheme = kPerChannelAffine
  THEN EmptyPerChannelAffineQuantized(DimsA(w),
         ToType(FromBlob(p.w_scale), "double"),
         ToType(FromBlob(p.w_zp), "long"), 0)
  ELSE UndefinedTensor

\* Tensor::data_ptr<c10::qint8>() raises on a tensor that is not defined
DataPtrOk(t) == t.dtype = "QInt8"

\* ------------------------------------------------------------- backend B
\* reinterpret_cast<int8_t*>: a byte seen as a two's-complement int8
ToInt8(v) == IF v % 256 >= 128 THEN (v % 256) - 256 ELSE v % 256

\* which path unpack() takes: orig_weight.defined()
QnnpCached_inverted(p) == p.orig_weight = NullId
QnnpCached(p) == p.orig_weight # NullId

SizesB(p) == p.weight_sizes

\* Tensor::sub_(128) on a Char tensor: the scalar is cast to int8 and the
\* difference wraps modulo 2^8
SubScalar_saturating(x, s) ==
  LET d == x - s IN IF d < -128 THEN -128 ELSE IF d > 127 THEN 127 ELSE d
SubScalar(x, s) == ToInt8(x - ToInt8(s))

\* at::_make_per_tensor_quantized_tensor(self, scale, zero_point): a new
\* QInt8 tensor with self's sizes and a copy of its data
MakePerTensorQuantizedTensor(t, scale, zp) ==
  [dtype |-> "QInt8", sizes |-> t.sizes, data |-> [x \in 1..Len(t.data) |-> t.data[x]],
   q |-> [scheme |-> kPerTensorAffine, scale_t |-> "double", zp_t |-> "long",
          scales |-> <<scale>>, zero_points |-> <<zp>>, axis |-> -1]]

\* ------------------------------------------------------------- backend C
\* at::empty({ncols, nrows}, at::kHalf)
DimsC(w) == <<NumCols(w), NumRows(w)>>

UnpackFlagC_none == "NoTranspose"
UnpackFlagC == "Transpose"

\* Tensor::to(at::kFloat): a new Float tensor; every float16 value is
\* representable in float32, so the values are kept
ToFloat(t) ==
  [dtype |-> "Float", sizes |-> t.sizes, data |-> [x \in 1..Len(t.data) |-> t.data[x]],
   q |-> NoQ]

\* ---------------------------------------------- packed weights under test
\* What the packing step handed to the constructor.  N = output features,
\* K = input features.  For A the scheme is q_scheme; for B it says whether
\* one or N (scale, zero point) pairs were stored.
ConfigsA == [backend : {"A"}, N : Dims, K : Dims, seed : Seeds,
             scheme : QSchemes, retained : {FALSE}, hasBias : BOOLEAN]
ConfigsB == [backend : {"B"}, N : Dims, K : Dims, seed : ByteSeeds,
             scheme : {kPerTensorAffine, kPerChannelAffine},
             retained : BOOLEAN, hasBias : BOOLEAN]
ConfigsC == [backend : {"C"}, N : Dims, K : Dims, seed : Seeds,
             scheme : {"none"}, retained : {FALSE}, hasBias : BOOLEAN]
ConfigsD == [backend : {"D"}, N : Dims, K : Dims, seed : Seeds,
             scheme : {kPerTensorAffine}, retained : {TRUE}, hasBias : BOOLEAN]
Configs == ConfigsA \cup ConfigsB \cup ConfigsC \cup ConfigsD

\* every byte value, as the single element of a 1 x 1 qnnpack buffer
ConfigsOffset == [backend : {"B"}, N : {1}, K : {1}, seed : Bytes,
                  scheme : {kPerTensorAffine}, retained : {FALSE}, hasBias : {FALSE}]

NumQParams(c) == IF c.scheme = kPerTensorAffine THEN 1 ELSE c.N

\* the packed-weight object: its members as the constructor left them
BuildPw(c) ==
  [backend |-> c.backend,
   w |-> WId,
   q_scheme |-> IF c.backend = "A" THEN c.scheme ELSE "none",
   w_scale |-> [ty |-> "float",
                v |-> IF c.backend \in {"A", "B"} THEN Ramp(3, NumQParams(c)) ELSE <<>>],
   w_zp |-> [ty |-> IF c.backend = "B" THEN "uint8" ELSE "int",
             v |-> IF c.backend = "A" THEN Ramp(7, NumQParams(c))
                   ELSE IF c.backend = "B" THEN Ramp(130, NumQParams(c)) ELSE <<>>],
   weight_sizes |-> IF c.backend = "B" THEN <<c.N, c.K>> ELSE <<0, 0>>,
   orig_weight |-> IF c.retained THEN OrigId ELSE NullId,
   bias_ |-> IF c.hasBias THEN BiasId ELSE NullId]

\* the packed buffer: A and C record [numRows, numCols] = [K, N], B keeps
\* the bytes of the [N, K] matrix, each signed value biased by 128
BuildPacked(c) ==
  IF c.backend = "A"
  THEN [dtype |-> "PackBMatrix", sizes |-> <<c.K, c.N>>,
        data |-> Ramp(c.seed, c.K * c.N), q |-> NoQ]
  ELSE IF c.backend = "B"
  THEN [dtype |-> "QnnpPackBMatrix", sizes |-> <<c.N, c.K>>,
        data |-> ByteRamp(c.seed, c.N * c.K), q |-> NoQ]
  ELSE IF c.backend = "C"
  THEN [dtype |-> "PackedGemmMatrixFP16", sizes |-> <<c.K, c.N>>,
        data |-> Ramp(c.seed, c.K * c.N), q |-> NoQ]
  ELSE [dtype |-> "ideep", sizes |-> <<c.K, c.N>>,
        data |-> Ramp(c.seed, c.K * c.N), q |-> NoQ]

\* the dense tensor the weight was packed from, when it was retained
BuildOrig(c) ==
  [dtype |-> "QInt8", sizes |-> <<c.N, c.K>>,
   data |-> IF c.backend = "B"
            THEN [x \in 1..(c.N * c.K) |-> ByteRamp(c.seed, c.N * c.K)[x] - Offset]
            ELSE Ramp(c.seed, c.N * c.K),
   q |-> [scheme |-> c.scheme, scale_t |-> "double", zp_t |-> "long",
          scales |-> Ramp(3, NumQParams(c)),
          zero_points |-> Ramp(2, NumQParams(c)),
          axis |-> IF c.scheme = kPerChannelAffine THEN 0 ELSE -1]]

BuildBias(c) == [dtype |-> "Float", sizes |-> <<c.N, 1>>, data |-> Ramp(11, c.N), q |-> NoQ]

BuildHeap(c) ==
  LET hw == (WId :> BuildPacked(c))
      ho == IF c.retained THEN (OrigId :> BuildOrig(c)) @@ hw ELSE hw
  IN  IF c.hasBias THEN (BiasId :> BuildBias(c)) @@ ho ELSE ho

\* ----------------------------------------------------------------- state
VARIABLES
  cfg,      \* what the weight was constructed from (never written)
  pw,       \* the packed-weight object's members
  heap,     \* tensor identity -> tensor (sizes, data, quantizer)
  pc,       \* pc[c]: the statement caller c is at
  rnd,      \* rnd[c]: unpack() calls caller c has completed
  wo,       \* wo[c]: the local weight_origin / unpacked_weight of caller c
  result,   \* result[c]: what caller c's latest unpack() returned
  first,    \* what the first unpack() to return returned
  rets,     \* <<c, r, id>>: the r-th call of caller c returned tensor id
  allocs,   \* <<c, id>>: caller c allocated tensor id
  writes    \* <<c, id>>: caller c wrote to the storage of tensor id

vars == <<cfg, pw, heap, pc, rnd, wo, result, first, rets, allocs, writes>>

NoResult == [status |-> "none", w |-> NullId, bias |-> NullId]
Thrown == [status |-> "error", w |-> NullId, bias |-> NullId]
Returned(wid, bid) == [status |-> "ok", w |-> wid, bias |-> bid]

InitFrom(S) ==
  /\ cfg \in S
  /\ pw = BuildPw(cfg)
  /\ heap = BuildHeap(cfg)
  /\ pc = [c \in Calls |-> "idle"]
  /\ rnd = [c \in Calls |-> 0]
  /\ wo = [c \in Calls |-> NullId]
  /\ result = [c \in Calls |-> NoResult]
  /\ first = NoResult
  /\ rets = {}
  /\ allocs = {}
  /\ writes = {}

Init == InitFrom(Configs)
InitOffset == InitFrom(ConfigsOffset)

\* a caller's unpack() returns or throws; its locals die with the frame
Finish(c, r) ==
  /\ pc' = [pc EXCEPT ![c] = "idle"]
  /\ rnd' = [rnd EXCEPT ![c] = @ + 1]
  /\ wo' = [wo EXCEPT ![c] = NullId]
  /\ result' = [result EXCEPT ![c] = r]
  /\ first' = IF first.status = "none" THEN r ELSE first
  /\ rets' = IF r.status = "ok" THEN rets \cup {<<c, rnd[c], r.w>>} ELSE rets

Enter(c, b) == pc[c] = "idle" /\ rnd[c] < MaxRounds /\ pw.backend = b

\* tensor identities of the allocations a call makes
NewWeightOriginA_static(c, r) == StaticId
NewWeightOriginA(c, r) == <<"A.weight_origin", c, r>>
NewWeightOriginB_aliased(c, r) == WId
NewWeightOriginB(c, r) == <<"B.weight_origin", c, r>>
NewQuantizedB(c, r) == <<"B.original_quantized_tensor", c, r>>
NewUnpackedC(c, r) == <<"C.unpacked_weight", c, r>>
NewFloatC_static(c, r) == StaticId
NewFloatC(c, r) == <<"C.to_float", c, r>>

\* ------------------------------------------- PackedLinearWeight::unpack
\* read N and K, dispatch on q_scheme, allocate weight_origin
A_Alloc(c) ==
  /\ Enter(c, "A")
  /\ LET t == AllocA(pw, heap[pw.w])
         id == NewWeightOriginA(c, rnd[c])
     IN  IF t.dtype = "Undefined"
         THEN /\ wo' = [wo EXCEPT ![c] = NullId]
              /\ UNCHANGED <<heap, allocs>>
         ELSE /\ wo' = [wo EXCEPT ![c] = id]
              /\ heap' = (id :> t) @@ heap
              /\ allocs' = allocs \cup {<<c, id>>}
  /\ pc' = [pc EXCEPT ![c] = "A_data_ptr"]
  /\ UNCHANGED <<cfg, pw, rnd, result, first, rets, writes>>

\* weight_origin.data_ptr<c10::qint8>()
A_DataPtr(c) ==
  /\ pc[c] = "A_data_ptr"
  /\ IF DataPtrOk(Lookup(heap, wo[c]))
     THEN /\ pc' = [pc EXCEPT ![c] = "A_unpack"]
          /\ UNCHANGED <<rnd, wo, result, first, rets>>
     ELSE Finish(c, Thrown)
  /\ UNCHANGED <<cfg, pw, heap, allocs, writes>>

\* packB->unpack(weight_ptr_int8)
A_Decode(c) ==
  /\ pc[c] = "A_unpack"
  /\ heap' = [heap EXCEPT ![wo[c]].data = PackBUnpack(heap[pw.w])]
  /\ writes' = writes \cup {<<c, wo[c]>>}
  /\ pc' = [pc EXCEPT ![c] = "A_return"]
  /\ UNCHANGED <<cfg, pw, rnd, wo, result, first, rets, allocs>>

\* return (weight_origin, bias_)
A_Return(c) ==
  /\ pc[c] = "A_return"
  /\ Finish(c, Returned(wo[c], pw.bias_))
  /\ UNCHANGED <<cfg, pw, heap, allocs, writes>>

\* -------------------------------------- PackedLinearWeightsQnnp::unpack
\* orig_weight.defined(): return (orig_weight, bias_)
B_Cached(c) ==
  /\ Enter(c, "B")
  /\ QnnpCached(pw)
  /\ Finish(c, Returned(pw.orig_weight, pw.bias_))
  /\ UNCHANGED <<cfg, pw, heap, allocs, writes>>

\* weight_origin = at::empty(weight_sizes, kChar)
B_Alloc(c) ==
  /\ Enter(c, "B")
  /\ ~QnnpCached(pw)
  /\ LET id == NewWeightOriginB(c, rnd[c])
     IN  /\ heap' = (id :> Empty(SizesB(pw), "Char")) @@ heap
         /\ wo' = [wo EXCEPT ![c] = id]
         /\ allocs' = allocs \cup {<<c, id>>}
  /\ pc' = [pc EXCEPT ![c] = "B_unpackWeights"]
  /\ UNCHANGED <<cfg, pw, rnd, result, first, rets, writes>>

\* w->unpackWeights(w_zero_points.data(), weight_ptr_int8): the bytes land
\* in the Char tensor's storage and are read back as int8
B_Decode(c) ==
  /\ pc[c] = "B_unpackWeights"
  /\ LET bytes == UnpackWeights(heap[pw.w])
     IN  heap' = [heap EXCEPT ![wo[c]].data =
                    [x \in 1..Len(bytes) |-> ToInt8(bytes[x])]]
  /\ writes' = writes \cup {<<c, wo[c]>>}
  /\ pc' = [pc EXCEPT ![c] = "B_sub"]
  /\ UNCHANGED <<cfg, pw, rnd, wo, result, first, rets, allocs>>

\* weight_origin.sub_(128)
B_Sub(c) ==
  /\ pc[c] = "B_sub"
  /\ LET d == heap[wo[c]].data
     IN  heap' = [heap EXCEPT ![wo[c]].data =
                    [x \in 1..Len(d) |-> SubScalar(d[x], Offset)]]
  /\ writes' = writes \cup {<<c, wo[c]>>}
  /\ pc' = [pc EXCEPT ![c] = "B_return"]
  /\ UNCHANGED <<cfg, pw, rnd, wo, result, first, rets, allocs>>

\* _make_per_tensor_quantized_tensor(weight_origin, scales[0], zero_points[0]),
\* TORCH_CHECK(qscheme() == kPerTensorAffine), return
B_Return(c) ==
  /\ pc[c] = "B_return"
  /\ LET t == MakePerTensorQuantizedTensor(heap[wo[c]], pw.w_scale.v[1], pw.w_zp.v[1])
         id == NewQuantizedB(c, rnd[c])
     IN  /\ heap' = (id :> t) @@ heap
         /\ allocs' = allocs \cup {<<c, id>>}
         /\ IF t.q.scheme = kPerTensorAffine
            THEN Finish(c, Returned(id, pw.bias_))
            ELSE Finish(c, Thrown)
  /\ UNCHANGED <<cfg, pw, writes>>

\* --------------------------------------- PackedLinearWeightFp16::unpack
\* unpacked_weight = at::empty({ncols, nrows}, kHalf)
C_Alloc(c) ==
  /\ Enter(c, "C")
  /\ LET id == NewUnpackedC(c, rnd[c])
     IN  /\ heap' = (id :> Empty(DimsC(heap[pw.w]), "Half")) @@ heap
         /\ wo' = [wo EXCEPT ![c] = id]
         /\ allocs' = allocs \cup {<<c, id>>}
  /\ pc' = [pc EXCEPT ![c] = "C_unpack"]
  /\ UNCHANGED <<cfg, pw, rnd, result, first, rets, writes>>

\* packed_weight_ptr->unpack(data_ptr, matrix_op_t::Transpose)
C_Decode(c) ==
  /\ pc[c] = "C_unpack"
  /\ heap' = [heap EXCEPT ![wo[c]].data = Fp16Unpack(heap[pw.w], UnpackFlagC)]
  /\ writes' = writes \cup {<<c, wo[c]>>}
  /\ pc' = [pc EXCEPT ![c] = "C_return"]
  /\ UNCHANGED <<cfg, pw, rnd, wo, result, first, rets, allocs>>

\* return (unpacked_weight.to(kFloat), bias_)
C_Return(c) ==
  /\ pc[c] = "C_return"
  /\ LET id == NewFloatC(c, rnd[c])
     IN  /\ heap' = (id :> ToFloat(heap[wo[c]])) @@ heap
         /\ allocs' = allocs \cup {<<c, id>>}
         /\ Finish(c, Returned(id, pw.bias_))
  /\ UNCHANGED <<cfg, pw, writes>>

\* ------------------------------------ PackedLinearWeightsOnednn::unpack
\* return (orig_weight_, orig_bias_)
D_Return(c) ==
  /\ Enter(c, "D")
  /\ Finish(c, Returned(pw.orig_weight, pw.bias_))
  /\ UNCHANGED <<cfg, pw, heap, allocs, writes>>

\* ------------------------------------------------------- specifications
Next ==
  \E c \in Calls :
    \/ A_Alloc(c) \/ A_DataPtr(c) \/ A_Decode(c) \/ A_Return(c)
    \/ B_Cached(c) \/ B_Alloc(c) \/ B_Decode(c) \/ B_Sub(c) \/ B_Return(c)
    \/ C_Alloc(c) \/ C_Decode(c) \/ C_Return(c)
    \/ D_Return(c)

Spec == Init /\ [][Next]_vars

\* the reconstructed path of backend B over every byte value
NextOffset ==
  \E c \in Calls :
    B_Alloc(c) \/ B_Decode(c) \/ B_Sub(c) \/ B_Return(c)

SpecOffset == InitOffset /\ [][NextOffset]_vars

\* ------------------------------------------------------------ properties
Packed == heap[WId]
Tensor(id) == Lookup(heap, id)
Ok(c) == result[c].status = "ok"

\* what a result holds now: the weight, the bias instance and its values
Content(r) == [status |-> r.status, w |-> Tensor(r.w), bias |-> r.bias,
               biasv |-> Tensor(r.bias)]

\* everything construction put in place is as construction left it
ConstructionIntact ==
  /\ pw = BuildPw(cfg)
  /\ \A id \in DOMAIN BuildHeap(cfg) : id \in DOMAIN heap /\ heap[id] = BuildHeap(cfg)[id]

\* C1: every unpack() that has returned holds the same shape, values,
\* quantization metadata and bias as the first one that returned, and the
\* packed buffer is as it was constructed
C1_Idempotent ==
  /\ \A c \in Calls : result[c].status # "none" => Content(result[c]) = Content(first)
  /\ Packed = BuildPacked(cfg)

C1_Witness ==
  /\ cfg.backend = "B" /\ ~cfg.retained /\ cfg.N > 1
  /\ \A c \in Calls : rnd[c] = MaxRounds /\ Ok(c)

\* C2: a returned dense weight has sizes [N, K], the dimensions recorded
\* with the packed buffer: [numCols, numRows] for A, weight_sizes for B,
\* [ncols, nrows] for C
C2_Shape ==
  \A c \in Calls : Ok(c) =>
    LET t == Tensor(result[c].w)
    IN  /\ t.sizes = <<cfg.N, cfg.K>>
        /\ Len(t.data) = cfg.N * cfg.K
        /\ cfg.backend \in {"A", "C"} => t.sizes = <<Packed.sizes[2], Packed.sizes[1]>>
        /\ cfg.backend = "B" => t.sizes = pw.weight_sizes

C2_Witness ==
  \E c \in Calls : Ok(c) /\ cfg.backend = "A" /\ cfg.N = 2 /\ cfg.K = 3

\* C3: on the reconstructed path of B every returned element equals its
\* packed byte minus 128, a value in -128..127
C3_OffsetExact ==
  \A c \in Calls : (Ok(c) /\ cfg.backend = "B" /\ ~cfg.retained) =>
    LET t == Tensor(result[c].w)
    IN  /\ Len(t.data) = Len(Packed.data)
        /\ \A x \in 1..Len(t.data) :
             /\ Packed.data[x] \in Bytes
             /\ t.data[x] = Packed.data[x] - 128
             /\ t.data[x] \in -128..127

C3_Witness ==
  \E c \in Calls : Ok(c) /\ cfg.seed = 255 /\ Tensor(result[c].w).data = <<127>>

\* C4: for C the result is a Float tensor of sizes [N, K] without
\* quantization metadata whose element [i][j] is M[j][i] of the packed
\* [K, N] matrix
C4_Transpose ==
  \A c \in Calls : (Ok(c) /\ cfg.backend = "C") =>
    LET t == Tensor(result[c].w)
        M == Packed
    IN  /\ t.dtype = "Float"
        /\ t.q = NoQ
        /\ t.sizes = <<M.sizes[2], M.sizes[1]>>
        /\ \A i \in 1..M.sizes[2] : \A j \in 1..M.sizes[1] : At(t, i, j) = At(M, j, i)

C4_Witness ==
  \E c \in Calls :
    /\ Ok(c) /\ cfg.backend = "C" /\ cfg.N = 3 /\ cfg.K = 2 /\ cfg.seed = 1
    /\ Tensor(result[c].w).data = <<1, 4, 2, 5, 3, 6>>

Malformed == cfg.backend = "A" /\ pw.q_scheme \notin {kPerTensorAffine, kPerChannelAffine}

\* C5: with a q_scheme that is neither per-tensor nor per-channel affine a
\* call of A's unpack() never returns a tensor, never allocates one, never
\* reaches the decoding routine, and every finished call has thrown
C5_MalformedFails ==
  Malformed =>
    /\ allocs = {} /\ writes = {} /\ rets = {}
    /\ \A c \in Calls :
         /\ pc[c] \in {"idle", "A_data_ptr"}
         /\ wo[c] = NullId
         /\ rnd[c] > 0 => result[c] = Thrown

C5_Witness == Malformed /\ \E c \in Calls : result[c] = Thrown /\ rnd[c] = MaxRounds

\* C6: a B weight without orig_weight that stores more than one scale and
\* zero point never returns a tensor from unpack()
C6_PerChannelFails ==
  (cfg.backend = "B" /\ pw.orig_weight = NullId /\ Len(pw.w_scale.v) > 1) =>
    \A c \in Calls : ~Ok(c)

\* what unpack() returns when no other call runs
UnpackAlone(p, h) ==
  LET w == h[p.w] IN
  IF p.backend = "A"
  THEN LET t == AllocA(p, w)
       IN  IF DataPtrOk(t) THEN [t EXCEPT !.data = PackBUnpack(w)] ELSE UndefinedTensor
  ELSE IF p.backend = "B"
  THEN IF QnnpCached(p) THEN h[p.orig_weight]
       ELSE LET e == Empty(SizesB(p), "Char")
                d == [x \in 1..Len(UnpackWeights(w)) |->
                        SubScalar(ToInt8(UnpackWeights(w)[x]), Offset)]
            IN  MakePerTensorQuantizedTensor([e EXCEPT !.data = d],
                                             p.w_scale.v[1], p.w_zp.v[1])
  ELSE IF p.backend = "C"
  THEN ToFloat([Empty(DimsC(w), "Half") EXCEPT !.data = Fp16Unpack(w, UnpackFlagC)])
  ELSE h[p.orig_weight]

\* C7: in every interleaving the packed buffer, scales, zero points, bias
\* and cached tensor stay as constructed, a call writes only to tensors that
\* it alone allocated, and a returned weight is what a lone call returns
C7_ConcurrentSafe ==
  /\ ConstructionIntact
  /\ \A e \in writes :
       /\ e \in allocs
       /\ \A d \in Calls : d # e[1] => <<d, e[2]>> \notin allocs
       /\ e[2] \notin DOMAIN BuildHeap(cfg)
  /\ \A c \in Calls : Ok(c) =>
       Tensor(result[c].w) = UnpackAlone(BuildPw(cfg), BuildHeap(cfg))

C7_Witness ==
  /\ cfg.backend = "B" /\ ~cfg.retained
  /\ \E c, d \in Calls :
       /\ c # d /\ pc[c] = "B_return" /\ pc[d] = "B_sub"
       /\ <<c, wo[c]>> \in writes /\ <<d, wo[d]>> \in writes

Held == {pw.w, pw.orig_weight, pw.bias_}
Distinct(S) == \A e1, e2 \in S : e1 # e2 => e1[3] # e2[3]

\* C8 as stated: on A, B and C a returned weight is never an instance the
\* packed weight holds and no two calls return the same instance; on D the
\* returned weight is the held orig_weight_
C8_ExclusiveAsStated ==
  /\ cfg.backend \in {"A", "B", "C"} =>
       /\ \A e \in rets : e[3] \notin Held
       /\ Distinct(rets)
  /\ cfg.backend = "D" => \A e \in rets : e[3] = pw.orig_weight

Fresh == cfg.backend \in {"A", "C"} \/ (cfg.backend = "B" /\ ~cfg.retained)

\* C8 amended: on A, on C and on B without a retained orig_weight a
\* returned weight is never an instance the packed weight holds and no two
\* calls return the same instance; on D and on B with a retained
\* orig_weight every call returns the held original
C8_Exclusive ==
  /\ Fresh =>
       /\ \A e \in rets : e[3] \notin Held
       /\ Distinct(rets)
  /\ ~Fresh => \A e \in rets : e[3] = pw.orig_weight /\ e[3] # NullId

C8_Witness ==
  /\ cfg.backend = "C"
  /\ Cardinality(rets) = NumCalls * MaxRounds

\* C9: a tensor returned by A carries the packed weight's scheme; per-tensor
\* it carries the stored (scale, zero_point); per-channel it carries N scales
\* and N zero points equal to the stored ones, with axis 0
C9_Metadata ==
  \A c \in Calls : (Ok(c) /\ cfg.backend = "A") =>
    LET q == Tensor(result[c].w).q
    IN  /\ q.scheme = pw.q_scheme
        /\ pw.q_scheme = kPerTensorAffine =>
             /\ q.scales = <<pw.w_scale.v[1]>>
             /\ q.zero_points = <<pw.w_zp.v[1]>>
        /\ pw.q_scheme = kPerChannelAffine =>
             /\ Len(q.scales) = cfg.N /\ Len(q.zero_points) = cfg.N
             /\ \A i \in 1..cfg.N :
                  q.scales[i] = pw.w_scale.v[i] /\ q.zero_points[i] = pw.w_zp.v[i]
             /\ q.axis = 0

C9_Witness ==
  \E c \in Calls :
    /\ Ok(c) /\ cfg.backend = "A" /\ pw.q_scheme = kPerChannelAffine /\ cfg.N = 3
    /\ Tensor(result[c].w).q.zero_points = <<7, 8, 9>>

Passthrough == cfg.backend = "D" \/ (cfg.backend = "B" /\ cfg.retained)

\* C10: on D, and on B when the original was retained, every call returns
\* the constructed weight and bias instances with their constructed values
\* and nothing is allocated, decoded or corrected; B without a retained
\* original never returns through that path
C10_Passthrough ==
  /\ Passthrough =>
       /\ allocs = {} /\ writes = {}
       /\ \A c \in Calls :
            /\ pc[c] = "idle"
            /\ rnd[c] > 0 =>
                 /\ result[c] = Returned(OrigId, IF cfg.hasBias THEN BiasId ELSE NullId)
                 /\ Tensor(result[c].w) = BuildOrig(cfg)
                 /\ cfg.hasBias => Tensor(result[c].bias) = BuildBias(cfg)
  /\ (cfg.backend = "B" /\ ~cfg.retained) =>
       \A c \in Calls : rnd[c] > 0 =>
         /\ Ok(c)
         /\ result[c].w \in {e[2] : e \in allocs}

C10_Witness ==
  /\ cfg.backend = "B" /\ cfg.retained /\ cfg.hasBias
  /\ \A c \in Calls : rnd[c] = MaxRounds /\ Ok(c)

====
